---- MODULE Spec2Model ----
(***************************************************************************)
(* Flight search / booking page (src/script.js) as a state machine.        *)
(*                                                                         *)
(* A JavaScript string is a sequence of one-character strings, so that     *)
(* formatting, parsing and encoding are computed character by character.   *)
(* A JavaScript value that reaches JSON is a tagged tree:                  *)
(*   [t |-> "null", v |-> 0]      null                                     *)
(*   [t |-> "num",  v |-> n]      an integer number                        *)
(*   [t |-> "nan",  v |-> 0]      NaN                                      *)
(*   [t |-> "str",  v |-> chars]  a string                                 *)
(*   [t |-> "obj",  v |-> props]  an object: its properties in insertion   *)
(*                                order, each <<key, value>>               *)
(***************************************************************************)
EXTENDS Integers, Sequences, FiniteSets, TLC

---------------------------------------------------------------------------
(* Bounds of the model *)

\* most deferred search callbacks outstanding at once, in the search alone
MaxPending == 2
\* and in the whole page
PagePending == 1
\* Math.random() is sampled at PriceSteps + 1 evenly spread points of its range
PriceSteps == 1
\* the same for the draw of the confirmation number
PnrSteps == 1

---------------------------------------------------------------------------
(* JavaScript values *)

JNull == [t |-> "null", v |-> 0]
NaN == [t |-> "nan", v |-> 0]
JNum(n) == [t |-> "num", v |-> n]
JStr(s) == [t |-> "str", v |-> s]
JObj(props) == [t |-> "obj", v |-> props]

\* obj.key of an object value (undefined properties do not occur in the model)
RECURSIVE PropFrom(_, _, _)
PropFrom(props, key, i) ==
  IF i > Len(props) THEN JNull
  ELSE IF props[i][1] = key THEN props[i][2]
  ELSE PropFrom(props, key, i + 1)

Get(obj, key) == PropFrom(obj.v, key, 1)

Digits == <<"0", "1", "2", "3", "4", "5", "6", "7", "8", "9">>

\* Number::toString for a non-negative integer below 10^21
RECURSIVE NatToString(_)
NatToString(n) ==
  IF n < 10 THEN <<Digits[n + 1]>>
  ELSE Append(NatToString(n \div 10), Digits[(n % 10) + 1])

NumberToString(n) ==
  IF n < 0 THEN <<"-">> \o NatToString(0 - n) ELSE NatToString(n)

RECURSIVE Concat(_)
Concat(parts) ==
  IF parts = <<>> THEN <<>> ELSE Head(parts) \o Concat(Tail(parts))

---------------------------------------------------------------------------
(* JSON.stringify(value, null, gap) *)

\* a slip: no escaping
QuoteCharRaw(c) == <<c>>

\* QuoteJSONString, one character: the escapes of the characters the model uses
QuoteChar(c) ==
  CASE c = "\"" -> <<"\\", "\"">>
    [] c = "\\" -> <<"\\", "\\">>
    [] c = "\n" -> <<"\\", "n">>
    [] c = "\t" -> <<"\\", "t">>
    [] c = "\r" -> <<"\\", "r">>
    [] OTHER -> <<c>>

RECURSIVE QuoteFrom(_, _)
QuoteFrom(s, i) ==
  IF i > Len(s) THEN <<>> ELSE QuoteChar(s[i]) \o QuoteFrom(s, i + 1)

QuoteJSONString(s) == <<"\"">> \o QuoteFrom(s, 1) \o <<"\"">>

RECURSIVE SerializeJSONProperty(_, _, _)
RECURSIVE SerializeMembers(_, _, _, _, _)

\* the members of an object from the i-th on, each after the first preceded by sep
SerializeMembers(props, i, gap, indent, sep) ==
  IF i > Len(props) THEN <<>>
  ELSE (IF i = 1 THEN <<>> ELSE sep)
       \o QuoteJSONString(props[i][1]) \o <<":">>
       \o (IF gap = <<>> THEN <<>> ELSE <<" ">>)
       \o SerializeJSONProperty(props[i][2], gap, indent)
       \o SerializeMembers(props, i + 1, gap, indent, sep)

\* indent is the indentation of the enclosing level (the standard's stepback)
SerializeJSONProperty(value, gap, indent) ==
  CASE value.t = "null" -> <<"n", "u", "l", "l">>
    [] value.t = "nan" -> <<"n", "u", "l", "l">>
    [] value.t = "num" -> NumberToString(value.v)
    [] value.t = "str" -> QuoteJSONString(value.v)
    [] value.t = "obj" ->
         IF value.v = <<>> THEN <<"{", "}">>
         ELSE IF gap = <<>>
         THEN <<"{">> \o SerializeMembers(value.v, 1, gap, indent, <<",">>) \o <<"}">>
         ELSE <<"{", "\n">> \o indent \o gap
              \o SerializeMembers(value.v, 1, gap, indent \o gap,
                                  <<",", "\n">> \o indent \o gap)
              \o <<"\n">> \o indent \o <<"}">>

RECURSIVE Spaces(_)
Spaces(n) == IF n = 0 THEN <<>> ELSE <<" ">> \o Spaces(n - 1)

\* JSON.stringify(value): no indentation
JSONstringify(value) == SerializeJSONProperty(value, <<>>, <<>>)

\* JSON.stringify(value, null, space): space blanks per level (space in 1..10)
JSONstringifyIndented(value, space) ==
  SerializeJSONProperty(value, Spaces(space), <<>>)

---------------------------------------------------------------------------
(* JSON.parse(text), for the JSON grammar without arrays, booleans, fractions *)
(* and \u escapes, none of which this program writes                         *)

SyntaxError == [t |-> "SyntaxError", v |-> 0]
ParseFail == [ok |-> FALSE, v |-> JNull, i |-> 0]
Parsed(value, next) == [ok |-> TRUE, v |-> value, i |-> next]

JSONWhitespace == {" ", "\n", "\t", "\r"}

RECURSIVE SkipWs(_, _)
SkipWs(s, i) ==
  IF i <= Len(s) /\ s[i] \in JSONWhitespace THEN SkipWs(s, i + 1) ELSE i

DigitValue(c) ==
  CASE c = "0" -> 0 [] c = "1" -> 1 [] c = "2" -> 2 [] c = "3" -> 3
    [] c = "4" -> 4 [] c = "5" -> 5 [] c = "6" -> 6 [] c = "7" -> 7
    [] c = "8" -> 8 [] c = "9" -> 9
    [] c \in {"a", "A"} -> 10 [] c \in {"b", "B"} -> 11
    [] c \in {"c", "C"} -> 12 [] c \in {"d", "D"} -> 13
    [] c \in {"e", "E"} -> 14 [] c \in {"f", "F"} -> 15
    [] OTHER -> 99

IsDigit(c, radix) == DigitValue(c) < radix

\* the digits of s from i on, in the given radix: [n, i, any]
RECURSIVE ReadDigits(_, _, _, _, _)
ReadDigits(s, i, radix, acc, any) ==
  IF i <= Len(s) /\ IsDigit(s[i], radix)
  THEN ReadDigits(s, i + 1, radix, acc * radix + DigitValue(s[i]), TRUE)
  ELSE [n |-> acc, i |-> i, any |-> any]

\* the characters of a string literal from i on, up to its closing quote
RECURSIVE ParseStringBody(_, _, _)
ParseStringBody(s, i, acc) ==
  IF i > Len(s) THEN ParseFail
  ELSE IF s[i] = "\"" THEN Parsed(JStr(acc), i + 1)
  ELSE IF s[i] \in {"\n", "\t", "\r"} THEN ParseFail
  ELSE IF s[i] = "\\"
  THEN IF i + 1 > Len(s) THEN ParseFail
       ELSE CASE s[i + 1] \in {"\"", "\\", "/"} ->
                   ParseStringBody(s, i + 2, Append(acc, s[i + 1]))
              [] s[i + 1] = "n" -> ParseStringBody(s, i + 2, Append(acc, "\n"))
              [] s[i + 1] = "t" -> ParseStringBody(s, i + 2, Append(acc, "\t"))
              [] s[i + 1] = "r" -> ParseStringBody(s, i + 2, Append(acc, "\r"))
              [] OTHER -> ParseFail
  ELSE ParseStringBody(s, i + 1, Append(acc, s[i]))

ParseNumber(s, i) ==
  LET neg == s[i] = "-"
      j == IF neg THEN i + 1 ELSE i
      d == ReadDigits(s, j, 10, 0, FALSE)
  IN  IF ~d.any \/ (d.i - j > 1 /\ s[j] = "0") THEN ParseFail
      ELSE Parsed(JNum(IF neg THEN 0 - d.n ELSE d.n), d.i)

IsLiteralAt(s, i, lit) ==
  /\ i + Len(lit) - 1 <= Len(s)
  /\ \A k \in 1..Len(lit) : s[i + k - 1] = lit[k]

\* CreateDataProperty: a repeated key keeps its place and takes the new value
SetProp(props, key, value) ==
  IF \E k \in 1..Len(props) : props[k][1] = key
  THEN [k \in 1..Len(props) |->
          IF props[k][1] = key THEN <<key, value>> ELSE props[k]]
  ELSE Append(props, <<key, value>>)

RECURSIVE ParseValue(_, _)
RECURSIVE ParseMembers(_, _, _)

\* the members of an object, i at the first character of a key
ParseMembers(s, i, props) ==
  LET k0 == SkipWs(s, i) IN
  IF k0 > Len(s) \/ s[k0] # "\"" THEN ParseFail
  ELSE LET key == ParseStringBody(s, k0 + 1, <<>>) IN
       IF ~key.ok THEN ParseFail
       ELSE LET c == SkipWs(s, key.i) IN
            IF c > Len(s) \/ s[c] # ":" THEN ParseFail
            ELSE LET val == ParseValue(s, c + 1) IN
                 IF ~val.ok THEN ParseFail
                 ELSE LET e == SkipWs(s, val.i)
                          now == SetProp(props, key.v.v, val.v)
                      IN  IF e > Len(s) THEN ParseFail
                          ELSE IF s[e] = "," THEN ParseMembers(s, e + 1, now)
                          ELSE IF s[e] = "}" THEN Parsed(JObj(now), e + 1)
                          ELSE ParseFail

ParseValue(s, i) ==
  LET j == SkipWs(s, i) IN
  IF j > Len(s) THEN ParseFail
  ELSE CASE s[j] = "{" ->
              LET k == SkipWs(s, j + 1) IN
              IF k <= Len(s) /\ s[k] = "}" THEN Parsed(JObj(<<>>), k + 1)
              ELSE ParseMembers(s, j + 1, <<>>)
         [] s[j] = "\"" -> ParseStringBody(s, j + 1, <<>>)
         [] s[j] = "-" \/ IsDigit(s[j], 10) -> ParseNumber(s, j)
         [] s[j] = "n" ->
              IF IsLiteralAt(s, j, <<"n", "u", "l", "l">>)
              THEN Parsed(JNull, j + 4) ELSE ParseFail
         [] OTHER -> ParseFail

\* JSON.parse(text): the value, or SyntaxError (thrown)
JSONparse(text) ==
  LET r == ParseValue(text, 1) IN
  IF r.ok /\ SkipWs(text, r.i) > Len(text) THEN r.v ELSE SyntaxError

---------------------------------------------------------------------------
(* The string literals of src/script.js, as character sequences *)

S_airline == <<"a", "i", "r", "l", "i", "n", "e">>
S_flight == <<"f", "l", "i", "g", "h", "t">>
S_time == <<"t", "i", "m", "e">>
S_price == <<"p", "r", "i", "c", "e">>
S_passenger == <<"p", "a", "s", "s", "e", "n", "g", "e", "r">>
S_email == <<"e", "m", "a", "i", "l">>
S_pnr == <<"p", "n", "r">>
S_timestamp == <<"t", "i", "m", "e", "s", "t", "a", "m", "p">>
S_booking == <<"b", "o", "o", "k", "i", "n", "g">>
S_AirIndia == <<"A", "i", "r", " ", "I", "n", "d", "i", "a">>
S_IndiGo == <<"I", "n", "d", "i", "G", "o">>
S_SpiceJet == <<"S", "p", "i", "c", "e", "J", "e", "t">>
S_AI202 == <<"A", "I", "2", "0", "2">>
S_6E305 == <<"6", "E", "3", "0", "5">>
S_SG101 == <<"S", "G", "1", "0", "1">>
S_1000 == <<"1", "0", ":", "0", "0">>
S_1430 == <<"1", "4", ":", "3", "0">>
S_1945 == <<"1", "9", ":", "4", "5">>
S_morning == <<"m", "o", "r", "n", "i", "n", "g">>
S_afternoon == <<"a", "f", "t", "e", "r", "n", "o", "o", "n">>
S_evening == <<"e", "v", "e", "n", "i", "n", "g">>
S_PNR == <<"P", "N", "R">>
S_YourPNR == <<"Y", "o", "u", "r", " ", "P", "N", "R", ":", " ">>
S_openBooking == <<"o", "p", "e", "n", "B", "o", "o", "k", "i", "n", "g", "(">>
S_dataPrefix == <<"d", "a", "t", "a", ":", "t", "e", "x", "t", "/", "j", "s", "o", "n", ";", "c", "h", "a", "r", "s", "e", "t", "=", "u", "t", "f", "-", "8", ",">>
S_bookingPrefix == <<"b", "o", "o", "k", "i", "n", "g", "_">>
S_jsonSuffix == <<".", "j", "s", "o", "n">>

---------------------------------------------------------------------------
(* parseInt, encodeURIComponent and the reading of a data: URL *)

StrWhiteSpace == {" ", "\n", "\t", "\r"}

RECURSIVE SkipStrWs(_, _)
SkipStrWs(s, i) ==
  IF i <= Len(s) /\ s[i] \in StrWhiteSpace THEN SkipStrWs(s, i + 1) ELSE i

\* parseInt(s) with no radix: leading white space, a sign, 0x for radix 16, then
\* the longest run of digits; NaN when that run is empty
parseInt(s) ==
  LET i == SkipStrWs(s, 1)
      neg == i <= Len(s) /\ s[i] = "-"
      j == IF i <= Len(s) /\ s[i] \in {"+", "-"} THEN i + 1 ELSE i
      hex == j + 1 <= Len(s) /\ s[j] = "0" /\ s[j + 1] \in {"x", "X"}
      k == IF hex THEN j + 2 ELSE j
      d == ReadDigits(s, k, IF hex THEN 16 ELSE 10, 0, FALSE)
  IN  IF ~d.any THEN NaN ELSE JNum(IF neg THEN 0 - d.n ELSE d.n)

\* a slip: a <= b written as not a > b, which NaN passes
NotGreater(a, b) == ~(a.t = "num" /\ b.t = "num" /\ a.v > b.v)

\* a <= b, a < b, a >= b on numbers: false as soon as one side is NaN
LessOrEqual(a, b) == a.t = "num" /\ b.t = "num" /\ a.v <= b.v
Less(a, b) == a.t = "num" /\ b.t = "num" /\ a.v < b.v
GreaterOrEqual(a, b) == a.t = "num" /\ b.t = "num" /\ a.v >= b.v

\* s.split(sep)[0]: s up to its first sep
RECURSIVE SplitFirst(_, _, _)
SplitFirst(s, sep, i) ==
  IF i > Len(s) \/ s[i] = sep THEN SubSeq(s, 1, i - 1)
  ELSE SplitFirst(s, sep, i + 1)

Letters ==
  {"a", "b", "c", "d", "e", "f", "g", "h", "i", "j", "k", "l", "m",
   "n", "o", "p", "q", "r", "s", "t", "u", "v", "w", "x", "y", "z",
   "A", "B", "C", "D", "E", "F", "G", "H", "I", "J", "K", "L", "M",
   "N", "O", "P", "Q", "R", "S", "T", "U", "V", "W", "X", "Y", "Z"}

\* the characters encodeURIComponent leaves as they are
UriUnreserved ==
  Letters \cup {Digits[k] : k \in 1..10}
          \cup {"-", "_", ".", "!", "~", "*", "'", "(", ")"}

\* the other ASCII characters, each with the two hex digits of its code
UriEscaped ==
  {<<"\t", "0", "9">>, <<"\n", "0", "A">>, <<"\r", "0", "D">>, <<" ", "2", "0">>,
   <<"\"", "2", "2">>, <<"#", "2", "3">>, <<"$", "2", "4">>, <<"%", "2", "5">>,
   <<"&", "2", "6">>, <<"+", "2", "B">>, <<",", "2", "C">>, <<"/", "2", "F">>,
   <<":", "3", "A">>, <<";", "3", "B">>, <<"<", "3", "C">>, <<"=", "3", "D">>,
   <<">", "3", "E">>, <<"?", "3", "F">>, <<"@", "4", "0">>, <<"[", "5", "B">>,
   <<"\\", "5", "C">>, <<"]", "5", "D">>, <<"^", "5", "E">>,
   <<"{", "7", "B">>, <<"|", "7", "C">>, <<"}", "7", "D">>}

EncodeChar(c) ==
  IF c \in UriUnreserved THEN <<c>>
  ELSE LET e == CHOOSE x \in UriEscaped : x[1] = c IN <<"%", e[2], e[3]>>

\* encodeURIComponent of s[lo..hi], by halves
RECURSIVE EncodeRange(_, _, _)
EncodeRange(s, lo, hi) ==
  IF lo > hi THEN <<>>
  ELSE IF lo = hi THEN EncodeChar(s[lo])
  ELSE LET mid == (lo + hi) \div 2
       IN  EncodeRange(s, lo, mid) \o EncodeRange(s, mid + 1, hi)

encodeURIComponent(s) == EncodeRange(s, 1, Len(s))

\* the body of a data: URL as the browser reads it: what follows the first
\* comma, each %XX replaced by the character of that code. The two characters
\* after a % that starts an escape are hex digits, so no escape starts inside
\* another one and each position is decided on its own.
EscapeChar ==
  [p \in {<<x[2], x[3]>> : x \in UriEscaped} |->
     (CHOOSE x \in UriEscaped : <<x[2], x[3]>> = p)[1]]

IsEscapeAt(s, i) ==
  /\ i >= 1
  /\ i + 2 <= Len(s)
  /\ s[i] = "%"
  /\ <<s[i + 1], s[i + 2]>> \in DOMAIN EscapeChar

DecodeAt(s, i) ==
  IF IsEscapeAt(s, i) THEN <<EscapeChar[<<s[i + 1], s[i + 2]>>]>>
  ELSE IF IsEscapeAt(s, i - 1) \/ IsEscapeAt(s, i - 2) THEN <<>>
  ELSE <<s[i]>>

RECURSIVE DecodeRange(_, _, _)
DecodeRange(s, lo, hi) ==
  IF lo > hi THEN <<>>
  ELSE IF lo = hi THEN DecodeAt(s, lo)
  ELSE LET mid == (lo + hi) \div 2
       IN  DecodeRange(s, lo, mid) \o DecodeRange(s, mid + 1, hi)

PercentDecode(s) == DecodeRange(s, 1, Len(s))

RECURSIVE IndexOf(_, _, _)
IndexOf(s, c, i) ==
  IF i > Len(s) THEN 0 ELSE IF s[i] = c THEN i ELSE IndexOf(s, c, i + 1)

DataUrlBody(href) ==
  PercentDecode(SubSeq(href, IndexOf(href, ",", 1) + 1, Len(href)))

---------------------------------------------------------------------------
(* The search: prices, the catalog, the filter *)

\* Math.floor(Math.random() * n) takes every value of 0..n-1; the model draws it
\* at steps + 1 evenly spread points, 0 and n - 1 among them
RandomInt(n, steps) == {(j * (n - 1)) \div steps : j \in 0..steps}

PriceRange == 5000
PriceBase == 4000
PnrRange == 1000000

\* slips: the base of the price one too high, one too low
getPriceHigh(u) == u + PriceBase + 1
getPriceLow(u) == u + PriceBase - 1

\* getPrice(), u the value of Math.floor(Math.random() * 5000)
getPrice(u) == u + PriceBase

Flight(a, f, t, p) ==
  JObj(<< <<S_airline, JStr(a)>>, <<S_flight, JStr(f)>>,
          <<S_time, JStr(t)>>, <<S_price, JNum(p)>> >>)

\* the flights array, u the three draws in the order getPrice() is called
Flights(u) ==
  << Flight(S_AirIndia, S_AI202, S_1000, getPrice(u[1])),
     Flight(S_IndiGo, S_6E305, S_1430, getPrice(u[2])),
     Flight(S_SpiceJet, S_SG101, S_1945, getPrice(u[3])) >>

\* a slip: the afternoon starting after 12
InSlotGap(timeSlot, hour) ==
  \/ timeSlot = <<>>
  \/ timeSlot = S_morning /\ Less(hour, JNum(12))
  \/ timeSlot = S_afternoon /\ Less(JNum(12), hour) /\ Less(hour, JNum(18))
  \/ timeSlot = S_evening /\ GreaterOrEqual(hour, JNum(18))

\* the time-slot test of the filter
InSlot(timeSlot, hour) ==
  \/ timeSlot = <<>>
  \/ timeSlot = S_morning /\ Less(hour, JNum(12))
  \/ timeSlot = S_afternoon /\ GreaterOrEqual(hour, JNum(12)) /\ Less(hour, JNum(18))
  \/ timeSlot = S_evening /\ GreaterOrEqual(hour, JNum(18))

\* a slip: the price strictly below the maximum
MatchesBelow(f, airlineValue, maxPrice, timeSlot) ==
  LET hour == parseInt(SplitFirst(Get(f, S_time).v, ":", 1)) IN
  /\ airlineValue = <<>> \/ Get(f, S_airline).v = airlineValue
  /\ Less(Get(f, S_price), maxPrice)
  /\ InSlot(timeSlot, hour)

\* the callback of flights.filter
Matches(f, airlineValue, maxPrice, timeSlot) ==
  LET hour == parseInt(SplitFirst(Get(f, S_time).v, ":", 1)) IN
  /\ airlineValue = <<>> \/ Get(f, S_airline).v = airlineValue
  /\ LessOrEqual(Get(f, S_price), maxPrice)
  /\ InSlot(timeSlot, hour)

Filtered(flights, airlineValue, maxPrice, timeSlot) ==
  LET Keep(f) == Matches(f, airlineValue, maxPrice, timeSlot)
  IN  SelectSeq(flights, Keep)

\* one flight card of displayResults: the texts it shows and its Book button
Card(f, fromValue, toValue) ==
  [airline |-> Get(f, S_airline).v,
   flight |-> Get(f, S_flight).v,
   from |-> fromValue,
   to |-> toValue,
   time |-> Get(f, S_time).v,
   price |-> NumberToString(Get(f, S_price).v),
   onclick |-> S_openBooking \o JSONstringify(f) \o <<")">>]

\* the argument that the onclick of a Book button passes to openBooking: the object
\* literal between "openBooking(" and ")", which is JSON text
OnclickArgument(onclick) ==
  JSONparse(SubSeq(onclick, Len(S_openBooking) + 1, Len(onclick) - 1))

---------------------------------------------------------------------------
(* What the user can enter, and the clock *)

\* the options of the airline and time selects ("" is "any")
AirlineOptions == {<<>>, S_AirIndia, S_IndiGo, S_SpiceJet}
TimeOptions == {<<>>, S_morning, S_afternoon, S_evening}

\* values for the filter: the options, and values no option has
FilterAirlines == AirlineOptions \cup {<<"i", "n", "d", "i", "g", "o">>}
FilterTimes == TimeOptions \cup {<<"n", "i", "g", "h", "t">>}
FilterPrices ==
  {<<>>,
   <<"a", "b", "c">>,
   <<"3", "9", "9", "9">>,
   <<"4", "0", "0", "0">>,
   <<"6", "4", "9", "9">>,
   <<"8", "9", "9", "8">>,
   <<"8", "9", "9", "9">>,
   <<"9", "0", "0", "0">>,
   <<"9", "0", "0", "0", "a", "b", "c">>,
   <<" ", "7", "0", "0", "0">>,
   <<"-", "1">>,
   <<"0", "x", "2", "0", "0", "0">>,
   <<"6", "5", "0", "0", ".", "9">>,
   <<"+", "8", "9", "9", "9">>,
   <<"x", "9", "0", "0", "0">>}

\* values for the search with its form edited between submissions
SearchAirlines == {<<>>, S_IndiGo}
SearchPrices == {<<"9", "0", "0", "0">>, <<"3", "9", "9", "9">>}
SearchTimes == {<<>>, S_evening}

\* values for the whole page
PagePrice == <<"9", "0", "0", "0">>
PageFrom == <<"D", "E", "L">>
PageTo == <<"B", "O", "M">>
\* a passenger name with a quote and a backslash in it
Names == {<<"A", "l", " ", "\"", "A", "c", "e", "\"", " ", "\\", "o", "/">>}
Emails == {<<"a", "@", "x", ".", "c", "o", "m">>}
\* new Date().toISOString() at two instants
Instants == {<<"2", "0", "2", "4", "-", "0", "1", "-", "0", "1", "T", "0", "0", ":", "0", "0", ":", "0", "0", ".", "0", "0", "0", "Z">>, <<"2", "0", "2", "4", "-", "1", "2", "-", "3", "1", "T", "2", "3", ":", "5", "9", ":", "5", "9", ".", "9", "9", "9", "Z">>}
\* the three draws of the searches of the whole page
PageDraws == {<<0, 2499, 4999>>, <<4999, 0, 2499>>}

\* the three draws of one search, each Math.floor(Math.random() * 5000): every
\* combination of the least and the greatest value, and each sampled value
\* drawn three times
PriceDraws(steps) ==
  {<<a, b, c>> : a \in {0, PriceRange - 1}, b \in {0, PriceRange - 1},
                 c \in {0, PriceRange - 1}}
  \cup {<<a, a, a>> : a \in RandomInt(PriceRange, steps)}

---------------------------------------------------------------------------
(* State *)

VARIABLES
  selectedFlight,   \* let selectedFlight
  bookingDetails,   \* let bookingDetails
  localStorage,     \* the entries of localStorage, each <<key, text>>
  from, to, airline, price, time,   \* the values of the search form's fields
  priceValue,       \* the text of the price label
  loader,           \* style.display of the loader
  results,          \* the flight cards of the results element, in order
  bookingForm,      \* style.display of the booking form
  receiptSection,   \* style.display of the receipt section
  pnrDisplay,       \* the text of the receipt's confirmation line
  timers,           \* the number of setTimeout callbacks not yet run
  submitted,        \* history: the form's values at the latest submit event
  offered,          \* the link the last step clicked: [href, download], or NoFile
  thrown            \* the error the last step threw, or NoError

formVars == <<from, to, airline, price, time, priceValue>>
searchVars == <<loader, results, timers, submitted>>
bookingVars ==
  <<selectedFlight, bookingDetails, localStorage, bookingForm, receiptSection,
    pnrDisplay>>
vars == <<formVars, searchVars, bookingVars, offered, thrown>>

NoFile == [href |-> <<>>, download |-> <<>>]
NoError == "none"
TypeError == "TypeError"
\* no submit event yet
NoCriteria == <<>>

\* a slip: a store that keeps the entry a key had
setItemKeeping(store, key, value) == store \cup {<<key, value>>}

\* localStorage.setItem(key, value) and localStorage.getItem(key)
setItem(store, key, value) ==
  {e \in store : e[1] # key} \cup {<<key, value>>}

getItem(store, key) ==
  IF \E e \in store : e[1] = key
  THEN JStr((CHOOSE e \in store : e[1] = key)[2])
  ELSE JNull

\* the page as loaded: both variables null, nothing stored, the loader, the
\* booking form and the receipt hidden, no results, the form as the page sets it
InitWith(froms, tos, airlines, prices, times) ==
  /\ selectedFlight = JNull
  /\ bookingDetails = JNull
  /\ localStorage = {}
  /\ from \in froms
  /\ to \in tos
  /\ airline \in airlines
  /\ price \in prices
  /\ time \in times
  /\ priceValue = price
  /\ loader = "none"
  /\ results = <<>>
  /\ bookingForm = "none"
  /\ receiptSection = "none"
  /\ pnrDisplay = <<>>
  /\ timers = 0
  /\ submitted = NoCriteria
  /\ offered = NoFile
  /\ thrown = NoError

---------------------------------------------------------------------------
(* The search form *)

\* the user moves the price slider: the input listener copies the value
InputPrice(values) ==
  /\ \E x \in values : price' = x /\ priceValue' = x
  /\ offered' = NoFile
  /\ thrown' = NoError
  /\ UNCHANGED <<from, to, airline, time, searchVars, bookingVars>>

\* the user picks an option of the airline select, of the time select
InputAirline(values) ==
  /\ airline' \in values
  /\ offered' = NoFile
  /\ thrown' = NoError
  /\ UNCHANGED <<from, to, price, time, priceValue, searchVars, bookingVars>>

InputTime(values) ==
  /\ time' \in values
  /\ offered' = NoFile
  /\ thrown' = NoError
  /\ UNCHANGED <<from, to, airline, price, priceValue, searchVars, bookingVars>>

\* the submit listener: showLoader() and setTimeout(..., 1000); the model
\* lets at most cap callbacks wait
Submit(cap) ==
  /\ timers < cap
  /\ loader' = "block"
  /\ timers' = timers + 1
  /\ submitted' = <<from, to, airline, price, time>>
  /\ offered' = NoFile
  /\ thrown' = NoError
  /\ UNCHANGED <<formVars, results, bookingVars>>

\* a slip: results.innerHTML = "" left out, the cards added to those shown
displayResultsAppending(flights, fromValue, toValue) ==
  results \o [i \in 1..Len(flights) |-> Card(flights[i], fromValue, toValue)]

\* displayResults(flights, from, to)
displayResults(flights, fromValue, toValue) ==
  [i \in 1..Len(flights) |-> Card(flights[i], fromValue, toValue)]

\* a slip of the design the specification recommends: only the callback of the
\* latest submission renders
SearchCallbackLastWins(u) ==
  /\ timers > 0
  /\ timers' = timers - 1
  /\ results' = IF timers > 1 THEN results
                ELSE displayResults(Filtered(Flights(u), airline, parseInt(price), time),
                                    from, to)
  /\ loader' = IF timers > 1 THEN loader ELSE "none"
  /\ offered' = NoFile
  /\ thrown' = NoError
  /\ UNCHANGED <<formVars, bookingVars, submitted>>

\* a slip: the selection dropped when the results are replaced
SearchCallbackClearing(u) ==
  /\ timers > 0
  /\ timers' = timers - 1
  /\ results' = displayResults(Filtered(Flights(u), airline, parseInt(price), time),
                               from, to)
  /\ loader' = "none"
  /\ selectedFlight' = JNull
  /\ offered' = NoFile
  /\ thrown' = NoError
  /\ UNCHANGED <<formVars, bookingDetails, localStorage, bookingForm,
                 receiptSection, pnrDisplay, submitted>>

\* what the callback renders, u the three draws of getPrice()
SearchResult(u) ==
  displayResults(Filtered(Flights(u), airline, parseInt(price), time), from, to)

\* the deferred callback: it reads the form, builds and filters the flights,
\* displayResults(filtered, from, to), hideLoader()
SearchCallback(u) ==
  /\ timers > 0
  /\ timers' = timers - 1
  /\ results' = SearchResult(u)
  /\ loader' = "none"
  /\ offered' = NoFile
  /\ thrown' = NoError
  /\ UNCHANGED <<formVars, bookingVars, submitted>>

---------------------------------------------------------------------------
(* The booking *)

\* openBooking(flight)
openBooking(flight) ==
  /\ selectedFlight' = flight
  /\ bookingForm' = "block"
  /\ offered' = NoFile
  /\ thrown' = NoError
  /\ UNCHANGED <<formVars, searchVars, bookingDetails, localStorage,
                 receiptSection, pnrDisplay>>

\* a click on the Book button of the i-th card runs its onclick
Book(i) ==
  /\ i \in 1..Len(results)
  /\ LET argument == OnclickArgument(results[i].onclick) IN
     /\ argument.t # "SyntaxError"
     /\ openBooking(argument)

\* "PNR" + Math.floor(Math.random() * 1000000), r the number drawn
Pnr(r) == S_PNR \o NumberToString(r)

\* a slip: the two input values in each other's place
BookingRecordSwapped(name, emailValue, flight, pnr, timestamp) ==
  JObj(<< <<S_passenger, JStr(emailValue)>>, <<S_email, JStr(name)>>,
          <<S_flight, flight>>, <<S_pnr, JStr(pnr)>>,
          <<S_timestamp, JStr(timestamp)>> >>)

\* the object literal confirmBooking assigns to bookingDetails
BookingRecord(name, emailValue, flight, pnr, timestamp) ==
  JObj(<< <<S_passenger, JStr(name)>>, <<S_email, JStr(emailValue)>>,
          <<S_flight, flight>>, <<S_pnr, JStr(pnr)>>,
          <<S_timestamp, JStr(timestamp)>> >>)

\* a slip: the code shown drawn anew, not the code of the record
confirmBookingRedrawn(name, emailValue, r, now) ==
  /\ bookingDetails' = BookingRecord(name, emailValue, selectedFlight, Pnr(r), now)
  /\ localStorage' = setItem(localStorage, S_booking, JSONstringify(bookingDetails'))
  /\ pnrDisplay' = S_YourPNR \o Pnr((r + 1) % PnrRange)
  /\ bookingForm' = "none"
  /\ receiptSection' = "block"
  /\ offered' = NoFile
  /\ thrown' = NoError
  /\ UNCHANGED <<formVars, searchVars, selectedFlight>>

\* confirmBooking(): name and emailValue are the values of the two inputs,
\* r the number drawn, now the text of new Date().toISOString()
confirmBooking(name, emailValue, r, now) ==
  /\ bookingDetails' = BookingRecord(name, emailValue, selectedFlight, Pnr(r), now)
  /\ localStorage' = setItem(localStorage, S_booking, JSONstringify(bookingDetails'))
  /\ pnrDisplay' = S_YourPNR \o Pnr(r)
  /\ bookingForm' = "none"
  /\ receiptSection' = "block"
  /\ offered' = NoFile
  /\ thrown' = NoError
  /\ UNCHANGED <<formVars, searchVars, selectedFlight>>

\* the link downloadReceipt() builds and clicks
ReceiptLink(details) ==
  [href |-> S_dataPrefix \o encodeURIComponent(JSONstringifyIndented(details, 2)),
   download |-> S_bookingPrefix \o Get(details, S_pnr).v \o S_jsonSuffix]

\* a slip: bookingDetails?.pnr, which throws nothing and names the file of no
\* record booking_undefined.json
downloadReceiptOptional ==
  /\ offered' =
       IF bookingDetails = JNull
       THEN [href |-> S_dataPrefix \o encodeURIComponent(JSONstringifyIndented(JNull, 2)),
             download |-> S_bookingPrefix
                          \o <<"u", "n", "d", "e", "f", "i", "n", "e", "d">>
                          \o S_jsonSuffix]
       ELSE ReceiptLink(bookingDetails)
  /\ thrown' = NoError
  /\ UNCHANGED <<formVars, searchVars, bookingVars>>

\* a slip: the receipt section closed once the file is offered
downloadReceiptClosing ==
  /\ offered' = IF bookingDetails = JNull THEN NoFile ELSE ReceiptLink(bookingDetails)
  /\ thrown' = IF bookingDetails = JNull THEN TypeError ELSE NoError
  /\ receiptSection' = IF bookingDetails = JNull THEN receiptSection ELSE "none"
  /\ UNCHANGED <<formVars, searchVars, selectedFlight, bookingDetails, localStorage,
                 bookingForm, pnrDisplay>>

\* downloadReceipt(): with bookingDetails null, bookingDetails.pnr throws a
\* TypeError before the link is added to the page or clicked
downloadReceipt ==
  /\ UNCHANGED <<formVars, searchVars, bookingVars>>
  /\ thrown' = IF bookingDetails = JNull THEN TypeError ELSE NoError
  /\ offered' = IF bookingDetails = JNull THEN NoFile ELSE ReceiptLink(bookingDetails)

---------------------------------------------------------------------------
(* Specifications *)

\* the whole page, its search form left as loaded
Init == InitWith({PageFrom}, {PageTo}, {<<>>}, {PagePrice}, {<<>>})

Next ==
  \/ Submit(PagePending)
  \/ \E u \in PageDraws : SearchCallback(u)
  \/ \E i \in 1..Len(results) : Book(i)
  \/ \E name \in Names, emailValue \in Emails,
        r \in RandomInt(PnrRange, PnrSteps), now \in Instants :
       confirmBooking(name, emailValue, r, now)
  \/ downloadReceipt

Spec == Init /\ [][Next]_vars

\* the filter alone, over every value of its inputs
FilterInit ==
  InitWith({PageFrom}, {PageTo}, FilterAirlines, FilterPrices, FilterTimes)

FilterNext ==
  \/ Submit(MaxPending)
  \/ \E u \in PriceDraws(PriceSteps) : SearchCallback(u)

FilterSpec == FilterInit /\ [][FilterNext]_vars

\* the search alone: the form edited at any time, submissions overlapping
SearchNext ==
  \/ InputAirline(SearchAirlines)
  \/ InputPrice(SearchPrices)
  \/ InputTime(SearchTimes)
  \/ Submit(MaxPending)
  \/ \E u \in PriceDraws(PriceSteps) : SearchCallback(u)

SearchSpec == Init /\ [][SearchNext]_vars

---------------------------------------------------------------------------
(* What the claims are stated with: the catalog and the criteria as the    *)
(* specification gives them                                                *)

DecimalDigits == {Digits[k] : k \in 1..10}

\* an optional minus sign and decimal digits, nothing else
IsInteger(text) ==
  LET body == IF text # <<>> /\ text[1] = "-" THEN Tail(text) ELSE text
  IN  body # <<>> /\ \A k \in 1..Len(body) : body[k] \in DecimalDigits

RECURSIVE DecimalValue(_)
DecimalValue(ds) ==
  IF ds = <<>> THEN 0
  ELSE 10 * DecimalValue(SubSeq(ds, 1, Len(ds) - 1))
       + (CHOOSE d \in 0..9 : Digits[d + 1] = ds[Len(ds)])

IntegerOf(text) ==
  IF text[1] = "-" THEN 0 - DecimalValue(Tail(text)) ELSE DecimalValue(text)

Catalog ==
  << [airline |-> S_AirIndia, flight |-> S_AI202, time |-> S_1000, hour |-> 10],
     [airline |-> S_IndiGo, flight |-> S_6E305, time |-> S_1430, hour |-> 14],
     [airline |-> S_SpiceJet, flight |-> S_SG101, time |-> S_1945, hour |-> 19] >>

SlotHours(slot) ==
  CASE slot = S_morning -> 0..11
    [] slot = S_afternoon -> 12..17
    [] slot = S_evening -> 18..23

\* the k-th catalog flight, priced by the draws u, satisfies the three criteria
Satisfies(k, u, maxPrice) ==
  /\ airline = <<>> \/ Catalog[k].airline = airline
  /\ getPrice(u[k]) <= maxPrice
  /\ time = <<>> \/ Catalog[k].hour \in SlotHours(time)

ExpectedCards(u, maxPrice) ==
  LET Keep(k) == Satisfies(k, u, maxPrice)
      sel == SelectSeq(<<1, 2, 3>>, Keep)
  IN  [i \in 1..Len(sel) |->
         <<Catalog[sel[i]].airline, Catalog[sel[i]].flight,
           Catalog[sel[i]].time, NumberToString(getPrice(u[sel[i]]))>>]

ShownCards(cards) ==
  [i \in 1..Len(cards) |->
     <<cards[i].airline, cards[i].flight, cards[i].time, cards[i].price>>]

ShownFlights(cards) == [i \in 1..Len(cards) |-> cards[i].flight]

\* a callback has run and another is still waiting: only then is the loader
\* hidden with a timer pending
CallbackRan == timers >= 1 /\ loader = "none"

---------------------------------------------------------------------------
(* C1 *)

\* C1: a BookingRecord exists, in bookingDetails or in localStorage, only if an
\* offer was selected earlier in the session, and no record has a null flight.
C1_RecordOnlyAfterSelect ==
  /\ (bookingDetails # JNull \/ localStorage # {}) => selectedFlight # JNull
  /\ bookingDetails # JNull => Get(bookingDetails, S_flight) # JNull
  /\ \A e \in localStorage : Get(JSONparse(e[2]), S_flight) # JNull

---------------------------------------------------------------------------
(* C2 *)

\* "PNR" followed by the decimal digits, 1 to 6 of them, of an integer of 0..999999
IsPnrCode(code) ==
  /\ Len(code) \in 4..9
  /\ SubSeq(code, 1, 3) = <<"P", "N", "R">>
  /\ LET ds == SubSeq(code, 4, Len(code)) IN
     /\ \A k \in 1..Len(ds) : ds[k] \in DecimalDigits
     /\ Len(ds) > 1 => ds[1] # "0"
     /\ DecimalValue(ds) \in 0..999999

\* the offer a card shows
OfferShown(card) ==
  /\ IsInteger(card.price)
  /\ selectedFlight' =
       JObj(<< <<S_airline, JStr(card.airline)>>, <<S_flight, JStr(card.flight)>>,
               <<S_time, JStr(card.time)>>, <<S_price, JNum(IntegerOf(card.price))>> >>)

\* C2: a click on Book selects the offer its card shows, nothing else changes the
\* selection, and confirmBooking(name, email) makes a record whose flight is the
\* selected offer, field for field, whose passenger and email are the given ones
\* and whose code is "PNR" and an integer of 0..999999.
C2_BookingOfSelected ==
  [][/\ selectedFlight' # selectedFlight =>
          \E i \in 1..Len(results) : Book(i) /\ OfferShown(results[i])
     /\ \A name \in Names, emailValue \in Emails,
           r \in RandomInt(PnrRange, PnrSteps), now \in Instants :
          confirmBooking(name, emailValue, r, now) =>
            /\ Get(bookingDetails', S_flight) = selectedFlight
            /\ Get(bookingDetails', S_passenger) = JStr(name)
            /\ Get(bookingDetails', S_email) = JStr(emailValue)
            /\ Get(bookingDetails', S_pnr).t = "str"
            /\ IsPnrCode(Get(bookingDetails', S_pnr).v)
            /\ Len(bookingDetails'.v) = 5
    ]_vars

\* a record booked for a selected offer
C2_Witness ==
  /\ bookingDetails # JNull
  /\ selectedFlight # JNull
  /\ Get(bookingDetails, S_flight) = selectedFlight
  /\ Get(bookingDetails, S_pnr).v = <<"P", "N", "R", "0">>

---------------------------------------------------------------------------
(* C3 *)

\* C3: localStorage holds at most one entry, under the key "booking"; once a
\* booking was confirmed it parses to the record in bookingDetails, the one of
\* the latest confirmBooking; before that nothing is stored.
C3_StorageHoldsLastBooking ==
  /\ Cardinality(localStorage) <= 1
  /\ \A e \in localStorage : e[1] = S_booking
  /\ bookingDetails = JNull => localStorage = {}
  /\ bookingDetails # JNull =>
       /\ getItem(localStorage, S_booking).t = "str"
       /\ JSONparse(getItem(localStorage, S_booking).v) = bookingDetails

\* a stored record whose passenger name needs escaping
C3_Witness ==
  /\ localStorage # {}
  /\ bookingDetails # JNull
  /\ "\"" \in {Get(bookingDetails, S_passenger).v[k] :
                 k \in 1..Len(Get(bookingDetails, S_passenger).v)}
  /\ Get(bookingDetails, S_flight) # JNull

---------------------------------------------------------------------------
(* C4 to C8: the filter *)

Text9000 == <<"9", "0", "0", "0">>
Text8999 == <<"8", "9", "9", "9">>
Text3999 == <<"3", "9", "9", "9">>
TextAbc == <<"a", "b", "c">>

Draws == PriceDraws(PriceSteps)

\* C4: for integer maximum prices and the time slots of the select, a search
\* shows exactly the catalog flights that satisfy the three criteria, in catalog
\* order, each with its generated price; IndiGo, 9000, afternoon shows exactly
\* flight 6E305 at 14:30.
C4_FilterExact ==
  [][\A u \in Draws :
       SearchCallback(u) /\ IsInteger(price) /\ time \in TimeOptions =>
         /\ ShownCards(results') = ExpectedCards(u, IntegerOf(price))
         /\ (airline = S_IndiGo /\ price = Text9000 /\ time = S_afternoon) =>
              /\ ShownFlights(results') = <<S_6E305>>
              /\ results'[1].time = S_1430
    ]_vars

C4_Witness ==
  /\ CallbackRan
  /\ airline = S_IndiGo /\ price = Text9000 /\ time = S_afternoon
  /\ ShownFlights(results) = <<S_6E305>>

\* C5: with no airline, no time slot and an integer maximum price of 8999 or
\* more, a search shows all three flights; no price shown is above 8999.
C5_AllShown ==
  [][\A u \in Draws :
       SearchCallback(u) =>
         /\ \A i \in 1..Len(results') : IntegerOf(results'[i].price) <= 8999
         /\ (airline = <<>> /\ time = <<>> /\ IsInteger(price)
             /\ IntegerOf(price) >= 8999) =>
              ShownFlights(results') = <<S_AI202, S_6E305, S_SG101>>
    ]_vars

C5_Witness ==
  /\ CallbackRan
  /\ price = Text8999
  /\ Len(results) = 3
  /\ \E i \in 1..3 : results[i].price = Text8999

\* C6: with an integer maximum price below 4000 a search shows nothing,
\* whatever the airline and the time slot; no price shown is below 4000.
C6_NoneShown ==
  [][\A u \in Draws :
       SearchCallback(u) =>
         /\ \A i \in 1..Len(results') : IntegerOf(results'[i].price) >= 4000
         /\ (IsInteger(price) /\ IntegerOf(price) < 4000) => results' = <<>>
    ]_vars

C6_Witness ==
  /\ CallbackRan
  /\ price = Text3999
  /\ airline = <<>> /\ time = <<>>
  /\ results = <<>>

\* the hour of a flight as the filter computes it
HourOf(f) == parseInt(SplitFirst(Get(f, S_time).v, ":", 1))

Slots == {S_morning, S_afternoon, S_evening}

\* C7: with no airline and a maximum price of 8999 or more, morning shows only
\* the 10:00 flight, afternoon only the 14:30 flight, evening only the 19:45
\* flight; each catalog flight is in exactly one slot, and so is each hour 0..23.
C7_SlotsPartition ==
  [][/\ \A u \in Draws :
          (SearchCallback(u) /\ airline = <<>> /\ IsInteger(price)
           /\ IntegerOf(price) >= 8999) =>
            /\ time = S_morning =>
                 ShownFlights(results') = <<S_AI202>> /\ results'[1].time = S_1000
            /\ time = S_afternoon =>
                 ShownFlights(results') = <<S_6E305>> /\ results'[1].time = S_1430
            /\ time = S_evening =>
                 ShownFlights(results') = <<S_SG101>> /\ results'[1].time = S_1945
     /\ \A k \in 1..3 :
          Cardinality({slot \in Slots : InSlot(slot, HourOf(Flights(<<0, 0, 0>>)[k]))}) = 1
     /\ \A h \in 0..23 :
          Cardinality({slot \in Slots : InSlot(slot, JNum(h))}) = 1
    ]_vars

C7_Witness ==
  /\ CallbackRan
  /\ airline = <<>> /\ price = Text9000 /\ time = S_evening
  /\ ShownFlights(results) = <<S_SG101>>

\* text without leading and trailing white space
RECURSIVE LastNonBlank(_, _)
LastNonBlank(s, i) ==
  IF i >= 1 /\ s[i] \in StrWhiteSpace THEN LastNonBlank(s, i - 1) ELSE i

Trimmed(text) == SubSeq(text, SkipStrWs(text, 1), LastNonBlank(text, Len(text)))

AllIn(s, chars) == s # <<>> /\ \A k \in 1..Len(s) : s[k] \in chars

HexDigits ==
  DecimalDigits \cup {"a", "b", "c", "d", "e", "f", "A", "B", "C", "D", "E", "F"}

\* a valid number: a sign and digits, with or without a fraction, or a hex literal
IsNumberText(text) ==
  LET t == Trimmed(text)
      body == IF t # <<>> /\ t[1] \in {"+", "-"} THEN Tail(t) ELSE t
      dot == IndexOf(body, ".", 1)
  IN  \/ AllIn(body, DecimalDigits)
      \/ /\ dot > 0
         /\ AllIn(SubSeq(body, 1, dot - 1), DecimalDigits)
         /\ AllIn(SubSeq(body, dot + 1, Len(body)), DecimalDigits)
      \/ /\ Len(t) > 2
         /\ t[1] = "0" /\ t[2] \in {"x", "X"}
         /\ AllIn(SubSeq(t, 3, Len(t)), HexDigits)

\* the text after its leading white space and one sign
AfterSign(text) ==
  LET i == SkipStrWs(text, 1)
      j == IF i <= Len(text) /\ text[i] \in {"+", "-"} THEN i + 1 ELSE i
  IN  SubSeq(text, j, Len(text))

NoLeadingInteger(text) ==
  AfterSign(text) = <<>> \/ AfterSign(text)[1] \notin DecimalDigits

\* a decimal integer, then something that is no number
RECURSIVE DigitRun(_, _)
DigitRun(s, i) ==
  IF i <= Len(s) /\ s[i] \in DecimalDigits THEN DigitRun(s, i + 1) ELSE i - 1

IntegerThenOther(text) ==
  /\ ~NoLeadingInteger(text)
  /\ ~IsNumberText(text)
  /\ ~(Len(AfterSign(text)) > 1 /\ AfterSign(text)[1] = "0"
       /\ AfterSign(text)[2] \in {"x", "X"})

LeadingInteger(text) ==
  LET i == SkipStrWs(text, 1)
      n == DecimalValue(SubSeq(AfterSign(text), 1, DigitRun(AfterSign(text), 1)))
  IN  IF text[i] = "-" THEN 0 - n ELSE n

\* C8 as claimed: a maximum price that is no valid number (empty, not numeric, a
\* number followed by other characters) makes every search show nothing.
C8_MalformedShowsNone ==
  [][\A u \in Draws :
       SearchCallback(u) /\ ~IsNumberText(price) => results' = <<>>
    ]_vars

\* C8 amended: a maximum price with no leading integer (empty, or not starting,
\* after white space and a sign, with a digit) makes every search show nothing;
\* a decimal integer followed by other characters is read as that integer.
C8_NoLeadingIntegerShowsNone ==
  [][\A u \in Draws :
       SearchCallback(u) =>
         /\ NoLeadingInteger(price) => results' = <<>>
         /\ (IntegerThenOther(price) /\ time \in TimeOptions) =>
              ShownCards(results') = ExpectedCards(u, LeadingInteger(price))
    ]_vars

C8_Witness ==
  /\ CallbackRan
  /\ price = TextAbc
  /\ airline = <<>> /\ time = <<>>
  /\ results = <<>>

---------------------------------------------------------------------------
(* C9 *)

\* C9 as claimed: the callback of a submission that a later one has followed
\* renders nothing.
C9_EarlierDiscarded ==
  [][(timers > 1 /\ timers' = timers - 1) => (results' = results /\ loader' = loader)
    ]_vars

\* C9 amended: nothing is discarded. Every pending callback, when it runs,
\* replaces the results by those of the form as it then is and hides the
\* loader, whether or not a later submission is pending.
C9_EveryCallbackRenders ==
  [][timers' = timers - 1 =>
       /\ loader' = "none"
       /\ \E u \in Draws : results' = SearchResult(u)
    ]_vars

\* the callback of an earlier submission has rendered flights while a later
\* submission is pending
C9_Witness ==
  /\ CallbackRan
  /\ results # <<>>

---------------------------------------------------------------------------
(* C10 *)

\* C10: the file downloadReceipt offers is named booking_<code>.json, <code> the
\* code of bookingDetails, and its content, read back from the data: URL and
\* parsed, is the record in bookingDetails.
C10_ReceiptRoundTrips ==
  offered # NoFile =>
    /\ bookingDetails # JNull
    /\ SubSeq(offered.href, 1, Len(S_dataPrefix)) = S_dataPrefix
    /\ JSONparse(DataUrlBody(offered.href)) = bookingDetails
    /\ Get(bookingDetails, S_pnr).t = "str"
    /\ offered.download =
         <<"b", "o", "o", "k", "i", "n", "g", "_">> \o Get(bookingDetails, S_pnr).v
         \o <<".", "j", "s", "o", "n">>

\* a receipt downloaded for a booked offer and a name that needs escaping
C10_Witness ==
  /\ offered # NoFile
  /\ Get(bookingDetails, S_flight) # JNull
  /\ "\\" \in {Get(bookingDetails, S_passenger).v[k] :
                 k \in 1..Len(Get(bookingDetails, S_passenger).v)}

---------------------------------------------------------------------------
(* C11 and C12: downloadReceipt *)

\* C11: downloadReceipt with no booking record fails: it throws, offers no file
\* and changes neither the selection, the record, the storage nor the page; no
\* file is ever offered while there is no record.
C11_DownloadWithoutBookingFails ==
  [][/\ bookingDetails' = JNull => offered' = NoFile
     /\ (downloadReceipt /\ bookingDetails = JNull) =>
          /\ thrown' = TypeError
          /\ offered' = NoFile
          /\ UNCHANGED <<selectedFlight, bookingDetails, localStorage, formVars,
                         loader, results, timers, bookingForm, receiptSection,
                         pnrDisplay>>
    ]_vars

\* a download has failed with an offer selected and the booking form open
C11_Witness ==
  /\ thrown = TypeError
  /\ bookingDetails = JNull
  /\ selectedFlight # JNull
  /\ bookingForm = "block"

\* C12: downloadReceipt with a booking record throws nothing and changes
\* neither the selection, the record, the storage nor what is visible; the
\* receipt stays shown, and the file offered is determined by the record alone,
\* so that repeated downloads offer the same name and content.
C12_DownloadIdempotent ==
  [][(downloadReceipt /\ bookingDetails # JNull) =>
       /\ thrown' = NoError
       /\ UNCHANGED <<selectedFlight, bookingDetails, localStorage, formVars,
                      loader, results, timers, bookingForm, receiptSection,
                      pnrDisplay>>
       /\ receiptSection' = "block"
       /\ offered' # NoFile
       /\ offered' = ReceiptLink(bookingDetails')
       /\ offered # NoFile => offered' = offered
    ]_vars

\* a receipt downloaded in the booked state, the receipt shown and the form hidden
C12_Witness ==
  /\ offered # NoFile
  /\ thrown = NoError
  /\ receiptSection = "block"
  /\ bookingForm = "none"
  /\ localStorage # {}

---------------------------------------------------------------------------
(* C13 *)

\* C13: when a search callback has run, the cards shown are exactly the flights
\* this search has filtered, at most three and no flight number twice, whatever
\* was shown before: nothing of an earlier search remains.
C13_ResultsReplaced ==
  [][timers' = timers - 1 =>
       /\ Len(results') <= 3
       /\ \A i, j \in 1..Len(results') :
            i # j => results'[i].flight # results'[j].flight
       /\ \A u \in Draws :
            SearchCallback(u) =>
              ShownCards(results') = ExpectedCards(u, IntegerOf(price))
    ]_vars

\* a search for IndiGo alone has rendered its one card, no callback waiting
C13_Witness ==
  /\ timers = 0
  /\ submitted # NoCriteria
  /\ airline = S_IndiGo
  /\ loader = "none"
  /\ ShownFlights(results) = <<S_6E305>>

---------------------------------------------------------------------------
(* C14 *)

\* C14: every confirmBooking hides the booking form and shows the receipt, and
\* whenever the receipt is shown its confirmation line carries the code of the
\* record in bookingDetails, which is the code of the record stored.
C14_ReceiptShowsCode ==
  /\ [][\A name \in Names, emailValue \in Emails,
           r \in RandomInt(PnrRange, PnrSteps), now \in Instants :
          confirmBooking(name, emailValue, r, now) =>
            bookingForm' = "none" /\ receiptSection' = "block"
       ]_vars
  /\ [](receiptSection = "block" =>
          LET code == Get(bookingDetails, S_pnr)
              stored == getItem(localStorage, S_booking)
          IN  /\ code.t = "str"
              /\ pnrDisplay = S_YourPNR \o code.v
              /\ stored # JNull
              /\ Get(JSONparse(stored.v), S_pnr) = code)

\* a booking confirmed for a selected offer: the form hidden, the receipt shown
C14_Witness ==
  /\ receiptSection = "block"
  /\ bookingForm = "none"
  /\ pnrDisplay # <<>>
  /\ Get(bookingDetails, S_flight) # JNull
  /\ offered = NoFile

---------------------------------------------------------------------------
(* C15 and C16: submissions that overlap, a form edited during the delay *)

\* C15 as claimed: the loader is shown exactly while a callback is waiting.
C15_LoaderWhilePending == (loader = "block") <=> (timers > 0)

\* C16 as claimed, for the latest submission: its callback renders the flights
\* filtered by the form values of the submit event.
C16_CriteriaAtSubmit ==
  [][\A u \in Draws :
       (timers = 1 /\ SearchCallback(u)) =>
         results' = displayResults(Filtered(Flights(u), submitted[3],
                                            parseInt(submitted[4]), submitted[5]),
                                   submitted[1], submitted[2])
    ]_vars

---------------------------------------------------------------------------
(* C17 *)

\* C17: a submit event and a search callback change neither the selection, the
\* record nor the storage; the selection carries the price its card showed, and
\* confirmBooking books the selection as it is, shown in the results or not.
C17_SearchKeepsBooking ==
  [][/\ timers' # timers =>
          UNCHANGED <<selectedFlight, bookingDetails, localStorage>>
     /\ \A i \in 1..Len(results) :
          Book(i) =>
            /\ Get(selectedFlight', S_flight).v = results[i].flight
            /\ NumberToString(Get(selectedFlight', S_price).v) = results[i].price
     /\ \A name \in Names, emailValue \in Emails,
           r \in RandomInt(PnrRange, PnrSteps), now \in Instants :
          confirmBooking(name, emailValue, r, now) =>
            Get(bookingDetails', S_flight) = selectedFlight
    ]_vars

\* an offer booked that is not among the cards now shown: a later search has
\* replaced the results it was selected from
C17_Witness ==
  /\ selectedFlight # JNull
  /\ results # <<>>
  /\ \A i \in 1..Len(results) :
       OnclickArgument(results[i].onclick) # selectedFlight
  /\ bookingDetails # JNull
  /\ Get(bookingDetails, S_flight) = selectedFlight

====
